---- MODULE Spec2Model ----
(***************************************************************************)
(* Model of dival/measure.py: the Measure base class with its process-wide *)
(* registry measure_dict, the short-name uniqueness logic of               *)
(* Measure.__init__, the lookup get_by_short_name, and the data-range      *)
(* selection of PSNRMeasure.apply and SSIMMeasure.apply.                   *)
(*                                                                         *)
(* Python strings are TLA+ strings, so that '{}_{}'.format(name, i) is a   *)
(* real concatenation: the explicit name "foo_1" and the renamed "foo"     *)
(* with suffix 1 are the same key.  An optional value is a sequence of     *)
(* length at most one: None is <<>> and a supplied value x is <<x>>.       *)
(***************************************************************************)
EXTENDS Integers, Sequences, FiniteSets, TLC

VARIABLES
    measure_dict,   \* Measure.measure_dict: short name -> instance (index of insts)
    insts,          \* the Measure objects created so far: cls, short_name, data_range
    warnings,       \* the warn() calls made so far: self, old, new
    log,            \* history: one record per completed sequential construction
    lookup,         \* the last get_by_short_name call: its argument and its result
    call,           \* the arrays given to apply: reconstruction, ground truth
    value,          \* the last apply call: the instance and what it computed
    mode,           \* "sequential", or for threads "atomic" / "interleaved"
    th              \* concurrent constructions: each thread's position and locals

vars == <<measure_dict, insts, warnings, log, lookup, call, value, mode, th>>

----------------------------------------------------------------------------
(* Bounds *)

MaxInst == 3        \* constructions after the module was loaded
MaxMeasures == 1    \* measures constructed before the apply calls
MaxLen == 2         \* length of the arrays given to apply
MaxVal == 1         \* array entries are 0..MaxVal
MaxRange == 2       \* data_range values given to the constructors: 0..MaxRange
NumThreads == 2     \* threads constructing measures concurrently

----------------------------------------------------------------------------
(* Optional values *)

None == <<>>
Some(x) == <<x>>

----------------------------------------------------------------------------
(* Classes *)

\* The four concrete measures of the module, a user subclass that declares
\* no short_name (it inherits Measure.short_name = ''), and a user subclass
\* that declares short_name = None.
BuiltinClasses == <<"L2Measure", "MSEMeasure", "PSNRMeasure", "SSIMMeasure">>
UserClasses == {"MyMeasure", "NoDefaultMeasure"}
RangedClasses == {"PSNRMeasure", "SSIMMeasure"}

\* The class attribute short_name as attribute lookup finds it.
ClassShortName(cls) ==
    CASE cls = "L2Measure" -> Some("l2")
      [] cls = "MSEMeasure" -> Some("mse")
      [] cls = "PSNRMeasure" -> Some("psnr")
      [] cls = "SSIMMeasure" -> Some("ssim")
      [] cls = "NoDefaultMeasure" -> None
      [] OTHER -> Some("")

\* Whether the class body itself assigns short_name a string.
DeclaresShortName(cls) == cls \in {"L2Measure", "MSEMeasure", "PSNRMeasure", "SSIMMeasure"}

----------------------------------------------------------------------------
(* Measure.__init__ *)

\* next(unique_name) for the i-th time: '{}_{}'.format(name_orig, str(i))
gen_unique_name_from0(name_orig, i) == name_orig \o "_" \o ToString(i - 1)
gen_unique_name(name_orig, i) == name_orig \o "_" \o ToString(i)

\* self.short_name in self.__class__.measure_dict
TakenAmongValues(name, dict) == FALSE  \* tested against the instances, never a name
Taken(name, dict) == name \in DOMAIN dict

\* PSNRMeasure.__init__ / SSIMMeasure.__init__: the short_name handed to
\* Measure.__init__
InitShortName(cls, data_range, short_name) ==
    IF cls \in RangedClasses /\ data_range # None /\ short_name = None
    THEN Some(ClassShortName(cls)[1] \o "_data_range" \o ToString(data_range[1]))
    ELSE short_name

\* self.short_name when the registry is consulted
RequestedShortName(cls, short_name) ==
    IF short_name # None THEN short_name[1]
    ELSE IF ClassShortName(cls) = None THEN cls
    ELSE ClassShortName(cls)[1]

\* while self.short_name in measure_dict: self.short_name = next(unique_name)
RECURSIVE RenameLoopChained(_, _, _, _)
RenameLoopChained(cur, name_orig, i, dict) ==
    IF Taken(cur, dict)
    THEN RenameLoopChained(gen_unique_name(cur, i), name_orig, i + 1, dict)
    ELSE cur
RECURSIVE RenameLoop(_, _, _, _)
RenameLoop(cur, name_orig, i, dict) ==
    IF Taken(cur, dict)
    THEN RenameLoop(gen_unique_name(name_orig, i), name_orig, i + 1, dict)
    ELSE cur

\* self.short_name when it is inserted
UniqueShortNameOnce(name, dict) ==
    IF Taken(name, dict) THEN gen_unique_name(name, 1) ELSE name
UniqueShortNameKept(name, dict) == name
UniqueShortName(name, dict) ==
    IF Taken(name, dict) THEN RenameLoop(name, name, 1, dict) ELSE name

\* the warn() calls of one construction
WarningOfFinal(self, requested, final, dict) ==
    IF Taken(requested, dict)
    THEN <<[self |-> self, old |-> final, new |-> final]>>
    ELSE <<>>
Warning(self, requested, final, dict) ==
    IF Taken(requested, dict)
    THEN <<[self |-> self, old |-> requested, new |-> final]>>
    ELSE <<>>

\* self.__class__.measure_dict[self.short_name] = self
Register(dict, name, self) ==
    [k \in DOMAIN dict \cup {name} |-> IF k = name THEN self ELSE dict[k]]

\* One whole construction cls(data_range=..., short_name=...) on a state
\* of the registry, the objects, the warnings and the history.
Constructed(s, cls, data_range, short_name) ==
    LET self == Len(s.insts) + 1
        requested == RequestedShortName(cls, InitShortName(cls, data_range, short_name))
        final == UniqueShortName(requested, s.measure_dict)
    IN  [insts |-> Append(s.insts, [cls |-> cls, short_name |-> final,
                                    data_range |-> data_range]),
         measure_dict |-> Register(s.measure_dict, final, self),
         warnings |-> s.warnings \o Warning(self, requested, final, s.measure_dict),
         log |-> Append(s.log, [self |-> self, cls |-> cls, arg |-> short_name,
                                requested |-> requested,
                                prekeys |-> DOMAIN s.measure_dict])]

\* L2 = L2Measure(); MSE = MSEMeasure(); PSNR = PSNRMeasure(); SSIM = SSIMMeasure()
RECURSIVE ModuleLoaded(_)
ModuleLoaded(n) ==
    IF n = 0
    THEN [insts |-> <<>>, measure_dict |-> <<>>, warnings |-> <<>>, log |-> <<>>]
    ELSE Constructed(ModuleLoaded(n - 1), BuiltinClasses[n], None, None)

NumBuiltins == Len(BuiltinClasses)

\* Measure.get_by_short_name: cls.measure_dict.get(short_name)
get_by_short_name_subscript(dict, short_name) ==
    IF short_name \in DOMAIN dict THEN Some(dict[short_name]) ELSE Some(-1)
get_by_short_name(dict, short_name) ==
    IF short_name \in DOMAIN dict THEN Some(dict[short_name]) ELSE None

----------------------------------------------------------------------------
(* Inputs *)

ExplicitNames == {"foo", "foo_1"}
ShortNameArgs == {None} \cup {Some(n) : n \in ExplicitNames}
DataRanges == {None} \cup {Some(d) : d \in 0..MaxRange}
PlainClasses == {"L2Measure"} \cup UserClasses
LookupNames == {"foo", "bar"}

----------------------------------------------------------------------------
(* Sequential use of the registry *)

RegistryInit ==
    /\ insts = ModuleLoaded(NumBuiltins).insts
    /\ measure_dict = ModuleLoaded(NumBuiltins).measure_dict
    /\ warnings = ModuleLoaded(NumBuiltins).warnings
    /\ log = ModuleLoaded(NumBuiltins).log
    /\ lookup = None

Init ==
    /\ RegistryInit
    /\ call = None
    /\ value = None
    /\ mode = "sequential"
    /\ th = <<>>

Construct(cls, data_range, short_name, limit) ==
    /\ Len(insts) < NumBuiltins + limit
    /\ LET s == Constructed([insts |-> insts, measure_dict |-> measure_dict,
                             warnings |-> warnings, log |-> log],
                            cls, data_range, short_name)
       IN  /\ insts' = s.insts
           /\ measure_dict' = s.measure_dict
           /\ warnings' = s.warnings
           /\ log' = s.log
    /\ lookup' = None
    /\ UNCHANGED <<call, value, mode, th>>

ConstructPlain ==
    \E cls \in PlainClasses, short_name \in ShortNameArgs :
        Construct(cls, None, short_name, MaxInst)

ConstructRanged ==
    \E cls \in RangedClasses, data_range \in {None, Some(MaxRange)},
       short_name \in ShortNameArgs :
        Construct(cls, data_range, short_name, MaxInst)

GetByShortName ==
    \E short_name \in LookupNames :
        /\ lookup' = Some([arg |-> short_name,
                           res |-> get_by_short_name(measure_dict, short_name)])
        /\ UNCHANGED <<measure_dict, insts, warnings, log, call, value, mode, th>>

Next ==
    \/ ConstructPlain
    \/ ConstructRanged
    \/ GetByShortName

Spec == Init /\ [][Next]_vars

----------------------------------------------------------------------------
(* PSNRMeasure.apply and SSIMMeasure.apply *)

\* One-dimensional arrays of equal shape, as np.asarray gives them.
Arrays(n) == [1..n -> 0..MaxVal]
Max(a, b) == IF a >= b THEN a ELSE b
Min(a, b) == IF a <= b THEN a ELSE b

RECURSIVE SumSq(_, _, _)
SumSq(r, gt, n) ==
    IF n = 0 THEN 0
    ELSE SumSq(r, gt, n - 1) + (r[n] - gt[n]) * (r[n] - gt[n])

RECURSIVE ArrayMax(_, _)
ArrayMax(gt, n) == IF n = 1 THEN gt[1] ELSE Max(ArrayMax(gt, n - 1), gt[n])
RECURSIVE ArrayMin(_, _)
ArrayMin(gt, n) == IF n = 1 THEN gt[1] ELSE Min(ArrayMin(gt, n - 1), gt[n])

\* np.max(gt) - np.min(gt)
GroundTruthRange(gt) == ArrayMax(gt, Len(gt)) - ArrayMin(gt, Len(gt))

\* np.mean((np.asarray(reconstruction) - gt)**2), as numerator and count;
\* it is zero exactly when the numerator is.
MeanSq(r, gt) == <<SumSq(r, gt, Len(gt)), Len(gt)>>

\* PSNRMeasure.apply: self.data_range or (np.max(gt) - np.min(gt))
PSNRDataRange(data_range, gt) ==
    IF data_range # None /\ data_range[1] # 0
    THEN data_range[1]
    ELSE GroundTruthRange(gt)

\* SSIMMeasure.apply: self.data_range if self.data_range is not None else ...
SSIMDataRange(data_range, gt) ==
    IF data_range # None THEN data_range[1] ELSE GroundTruthRange(gt)

\* PSNRMeasure.apply: the value, the data range used (None when none was
\* computed) and the sub-expressions evaluated on the way.
PSNRApplyUnguarded(data_range, r, gt) ==
    [kind |-> "20*log10(data_range)-10*log10(mse)",
     data_range |-> Some(PSNRDataRange(data_range, gt)),
     mse |-> MeanSq(r, gt),
     evaluated |-> {"mse", "data_range", "log10(data_range)", "log10(mse)"}]
PSNRApply(data_range, r, gt) ==
    IF MeanSq(r, gt)[1] = 0
    THEN [kind |-> "inf", data_range |-> None, mse |-> MeanSq(r, gt),
          evaluated |-> {"mse"}]
    ELSE [kind |-> "20*log10(data_range)-10*log10(mse)",
          data_range |-> Some(PSNRDataRange(data_range, gt)),
          mse |-> MeanSq(r, gt),
          evaluated |-> {"mse", "data_range", "log10(data_range)", "log10(mse)"}]

\* SSIMMeasure.apply: structural_similarity(reconstruction, gt, data_range=...)
SSIMApply(data_range, r, gt) ==
    [kind |-> "structural_similarity",
     data_range |-> Some(SSIMDataRange(data_range, gt)),
     mse |-> None,
     evaluated |-> {"data_range"}]

\* The arrays handed to apply are drawn here; the measures start as the
\* module leaves them.
ApplyInit ==
    /\ RegistryInit
    /\ \E n \in 1..MaxLen :
           \E r \in Arrays(n), gt \in Arrays(n) :
               call = Some([reconstruction |-> r, ground_truth |-> gt])
    /\ value = None
    /\ mode = "sequential"
    /\ th = <<>>

\* PSNRMeasure(data_range=d) / SSIMMeasure(data_range=d)
ConstructWithRange ==
    \E cls \in RangedClasses, data_range \in DataRanges :
        Construct(cls, data_range, None, MaxMeasures)

\* measure(reconstruction, ground_truth) on the instance self
PSNRApplyCall ==
    \E self \in 1..Len(insts) :
        /\ insts[self].cls = "PSNRMeasure"
        /\ value' = Some([self |-> self,
                          out |-> PSNRApply(insts[self].data_range,
                                            call[1].reconstruction,
                                            call[1].ground_truth)])
        /\ UNCHANGED <<measure_dict, insts, warnings, log, lookup, call, mode, th>>

SSIMApplyCall ==
    \E self \in 1..Len(insts) :
        /\ insts[self].cls = "SSIMMeasure"
        /\ value' = Some([self |-> self,
                          out |-> SSIMApply(insts[self].data_range,
                                            call[1].reconstruction,
                                            call[1].ground_truth)])
        /\ UNCHANGED <<measure_dict, insts, warnings, log, lookup, call, mode, th>>

ApplyNext ==
    \/ ConstructWithRange
    \/ PSNRApplyCall
    \/ SSIMApplyCall

SpecApply == ApplyInit /\ [][ApplyNext]_vars

----------------------------------------------------------------------------
(* Measure.__init__ run by several threads *)

Threads == 1..NumThreads

RaceInit ==
    /\ RegistryInit
    /\ call = None
    /\ value = None
    /\ mode \in {"atomic", "interleaved"}
    /\ th = [t \in Threads |-> [pc |-> "idle", self |-> None,
                                old_short_name |-> None, i |-> None]]

\* With the constructor under a lock, a thread runs only while no other
\* thread is inside Measure.__init__.
CanStep(t) ==
    mode = "atomic" => \A u \in Threads \ {t} : th[u].pc \in {"idle", "done"}

ShortNameOf(t) == insts[th[t].self[1]].short_name

\* lines 71-74: the new object gets its short_name attribute
T_Begin(t) ==
    \E cls \in {"L2Measure", "MyMeasure"}, short_name \in ShortNameArgs :
        /\ th[t].pc = "idle"
        /\ CanStep(t)
        /\ insts' = Append(insts, [cls |-> cls,
                                   short_name |-> RequestedShortName(cls, short_name),
                                   data_range |-> None])
        /\ th' = [th EXCEPT ![t].pc = "check", ![t].self = Some(Len(insts) + 1)]
        /\ UNCHANGED <<measure_dict, warnings, log, lookup, call, value, mode>>

\* line 75, and lines 76-77 when the name is a key
T_Check(t) ==
    /\ th[t].pc = "check"
    /\ CanStep(t)
    /\ IF Taken(ShortNameOf(t), measure_dict)
       THEN th' = [th EXCEPT ![t].pc = "loop",
                             ![t].old_short_name = Some(ShortNameOf(t)),
                             ![t].i = Some(1)]
       ELSE th' = [th EXCEPT ![t].pc = "insert"]
    /\ UNCHANGED <<measure_dict, insts, warnings, log, lookup, call, value, mode>>

\* line 78, and line 79 when the name is a key
T_Loop(t) ==
    /\ th[t].pc = "loop"
    /\ CanStep(t)
    /\ IF Taken(ShortNameOf(t), measure_dict)
       THEN /\ insts' = [insts EXCEPT ![th[t].self[1]].short_name =
                             gen_unique_name(th[t].old_short_name[1], th[t].i[1])]
            /\ th' = [th EXCEPT ![t].i = Some(th[t].i[1] + 1)]
       ELSE /\ th' = [th EXCEPT ![t].pc = "warn"]
            /\ UNCHANGED insts
    /\ UNCHANGED <<measure_dict, warnings, log, lookup, call, value, mode>>

\* lines 80-81
T_Warn(t) ==
    /\ th[t].pc = "warn"
    /\ CanStep(t)
    /\ warnings' = Append(warnings, [self |-> th[t].self[1],
                                     old |-> th[t].old_short_name[1],
                                     new |-> ShortNameOf(t)])
    /\ th' = [th EXCEPT ![t].pc = "insert"]
    /\ UNCHANGED <<measure_dict, insts, log, lookup, call, value, mode>>

\* line 82
T_Insert(t) ==
    /\ th[t].pc = "insert"
    /\ CanStep(t)
    /\ measure_dict' = Register(measure_dict, ShortNameOf(t), th[t].self[1])
    /\ th' = [th EXCEPT ![t].pc = "done"]
    /\ UNCHANGED <<insts, warnings, log, lookup, call, value, mode>>

RaceNext ==
    \E t \in Threads :
        \/ T_Begin(t)
        \/ T_Check(t)
        \/ T_Loop(t)
        \/ T_Warn(t)
        \/ T_Insert(t)

SpecRace == RaceInit /\ [][RaceNext]_vars

----------------------------------------------------------------------------
(* Properties of the sequential registry *)

FinalName(e) == insts[e.self].short_name
WarningsOf(self) == SelectSeq(warnings, LAMBDA w : w.self = self)
Constructions == {log[k] : k \in 1..Len(log)}

\* The name n with the suffix _k, as the specification writes it.
Suffixed(n, k) == n \o "_" \o ToString(k)

\* C1: no two constructed Measure instances have the same short_name.
C1_UniqueShortNames ==
    \A i, j \in 1..Len(insts) :
        i # j => insts[i].short_name # insts[j].short_name

\* Three instances exist that all asked for the same name.
C1_Witness ==
    \E e1, e2, e3 \in Constructions :
        /\ e1.self < e2.self /\ e2.self < e3.self
        /\ e1.requested = e2.requested /\ e2.requested = e3.requested

\* C2: a construction never overwrites or removes a registry entry, and
\* every constructed instance m stays retrievable by m.short_name.
C2_NeverOverwrites ==
    [][/\ \A n \in DOMAIN measure_dict :
              /\ n \in DOMAIN measure_dict'
              /\ measure_dict'[n] = measure_dict[n]
       /\ \A i \in 1..Len(insts') :
              get_by_short_name(measure_dict', insts'[i].short_name) = Some(i)]_vars

\* A construction collided with a registered name, and both the older
\* instance and the renamed one are retrieved by their names.
C2_Witness ==
    \E k \in 1..Len(warnings) :
        LET w == warnings[k] IN
        /\ get_by_short_name(measure_dict, w.new) = Some(w.self)
        /\ get_by_short_name(measure_dict, w.old) # None
        /\ get_by_short_name(measure_dict, w.old) # Some(w.self)

\* C3: when the requested name n is a registry key, the instance's
\* short_name is n_k for the smallest k >= 1 such that n_k is no registry
\* key, the suffix being appended to n itself.
C3_SmallestSuffix ==
    \A e \in Constructions :
        e.requested \in e.prekeys =>
            \E k \in 1..(Cardinality(e.prekeys) + 1) :
                /\ FinalName(e) = Suffixed(e.requested, k)
                /\ FinalName(e) \notin e.prekeys
                /\ \A j \in 1..(k - 1) : Suffixed(e.requested, j) \in e.prekeys

\* A construction whose requested name and its first suffixed candidate
\* were both registry keys.
C3_Witness ==
    \E e \in Constructions :
        /\ e.requested \in e.prekeys
        /\ Suffixed(e.requested, 1) \in e.prekeys
        /\ FinalName(e) = Suffixed(e.requested, 2)

\* Two constructions one after the other with the same explicit short name.
SameNameTwice(k) ==
    /\ k \in 1..(Len(log) - 1)
    /\ log[k].arg # None
    /\ log[k + 1].arg = log[k].arg

\* C4 as stated: in any reachable registry state, two constructions one
\* after the other with the same explicit short name leave the second
\* instance with the short_name name_1, and a warning is made for it.
C4_SecondIsName1 ==
    \A k \in 1..Len(log) :
        SameNameTwice(k) =>
            /\ FinalName(log[k + 1]) = Suffixed(log[k].arg[1], 1)
            /\ Len(WarningsOf(log[k + 1].self)) = 1

\* C4 as amended: the second construction always warns and is renamed, and
\* its short_name is name_1 whenever neither name nor name_1 was a registry
\* key before the first of the two constructions.
C4_SecondIsName1WhenFree ==
    \A k \in 1..Len(log) :
        SameNameTwice(k) =>
            LET name == log[k].arg[1]
                second == log[k + 1]
            IN  /\ Len(WarningsOf(second.self)) = 1
                /\ WarningsOf(second.self)[1].old = name
                /\ WarningsOf(second.self)[1].new = FinalName(second)
                /\ FinalName(second) # name
                /\ (name \notin log[k].prekeys
                    /\ Suffixed(name, 1) \notin log[k].prekeys)
                   => FinalName(second) = Suffixed(name, 1)

\* Two constructions in a row with a fresh explicit name.
C4_Witness ==
    \E k \in 1..Len(log) :
        /\ SameNameTwice(k)
        /\ log[k].arg[1] \notin log[k].prekeys
        /\ Suffixed(log[k].arg[1], 1) \notin log[k].prekeys
        /\ FinalName(log[k]) = log[k].arg[1]
        /\ FinalName(log[k + 1]) = Suffixed(log[k].arg[1], 1)

\* C5: a subclass that declares no default short name, constructed with no
\* explicit short_name, requests its own class name from the registry.
C5_ClassNameRequested ==
    \A e \in Constructions :
        (~DeclaresShortName(e.cls) /\ e.arg = None) => e.requested = e.cls

\* C6: every construction ends with the instance registered, and it warns,
\* with (requested name, final name), exactly when the requested name was
\* a registry key at construction time.
C6_WarnsIffCollision ==
    \A e \in Constructions :
        /\ get_by_short_name(measure_dict, FinalName(e)) = Some(e.self)
        /\ IF e.requested \in e.prekeys
           THEN /\ Len(WarningsOf(e.self)) = 1
                /\ WarningsOf(e.self)[1].old = e.requested
                /\ WarningsOf(e.self)[1].new = FinalName(e)
                /\ FinalName(e) # e.requested
           ELSE /\ Len(WarningsOf(e.self)) = 0
                /\ FinalName(e) = e.requested

\* One construction that collided and one, after the module was loaded,
\* that did not.
C6_Witness ==
    \E e1, e2 \in Constructions :
        /\ e1.self > NumBuiltins /\ e2.self > NumBuiltins
        /\ e1.requested \in e1.prekeys /\ Len(WarningsOf(e1.self)) = 1
        /\ e2.requested \notin e2.prekeys /\ Len(WarningsOf(e2.self)) = 0

\* The instance whose short_name is n, if any.
InstanceNamed(n) ==
    IF \E i \in 1..Len(insts) : insts[i].short_name = n
    THEN Some(CHOOSE i \in 1..Len(insts) : insts[i].short_name = n)
    ELSE None

\* C7: get_by_short_name(n) returns None for a name no instance has, the
\* instance of that name otherwise, and changes neither the registry nor
\* any instance.
C7_PureLookup ==
    [][(lookup' # None /\ lookup' # lookup) =>
          /\ lookup'[1].res = InstanceNamed(lookup'[1].arg)
          /\ measure_dict' = measure_dict
          /\ insts' = insts
          /\ warnings' = warnings]_vars

\* A lookup of a name no instance has, after some constructions.
C7_Witness ==
    /\ lookup # None
    /\ lookup[1].res = None
    /\ InstanceNamed(lookup[1].arg) = None
    /\ Len(insts) > NumBuiltins

----------------------------------------------------------------------------
(* Properties of apply *)

\* The measure of the last apply call and the mse of its arrays.
CalledMeasure == insts[value[1].self]
CalledMeanSq == MeanSq(call[1].reconstruction, call[1].ground_truth)

\* C8: a PSNRMeasure constructed with a data_range d (not None) uses d as
\* the data range in every apply call with nonzero mse.
C8_SuppliedRangeUsed ==
    (/\ value # None
     /\ CalledMeasure.cls = "PSNRMeasure"
     /\ CalledMeasure.data_range # None
     /\ CalledMeanSq[1] # 0)
    => value[1].out.data_range = CalledMeasure.data_range

\* C9: PSNRMeasure.apply returns positive infinity whenever the mse is
\* zero, whatever data_range was configured, and evaluates neither the
\* data range nor a logarithm on the way.
C9_InfOnZeroMse ==
    (/\ value # None
     /\ CalledMeasure.cls = "PSNRMeasure"
     /\ CalledMeanSq[1] = 0)
    => /\ value[1].out.kind = "inf"
       /\ value[1].out.data_range = None
       /\ value[1].out.evaluated = {"mse"}

\* apply(r, r) on a PSNRMeasure(data_range=0) with a constant array.
C9_Witness ==
    /\ value # None
    /\ CalledMeasure.cls = "PSNRMeasure"
    /\ CalledMeasure.data_range = Some(0)
    /\ call[1].reconstruction = call[1].ground_truth
    /\ GroundTruthRange(call[1].ground_truth) = 0
    /\ value[1].out.kind = "inf"

----------------------------------------------------------------------------
(* Properties of concurrent construction *)

Done == {t \in Threads : th[t].pc = "done"}
Retrievable(t) ==
    get_by_short_name(measure_dict, ShortNameOf(t)) = th[t].self

\* C10: with check, rename and insert executed atomically, every finished
\* construction is retrievable by its short_name and no two finished
\* constructions share one; the witness is the state the interleaved
\* execution reaches instead.
C10_AtomicIsSafe ==
    mode = "atomic" =>
        /\ \A t \in Done : Retrievable(t)
        /\ \A t, u \in Done : t # u => ShortNameOf(t) # ShortNameOf(u)

\* Interleaved: two finished constructions that asked for the same name
\* hold the same short_name, and one of them was overwritten in the
\* registry.
C10_Witness ==
    /\ mode = "interleaved"
    /\ \E t, u \in Done :
          /\ t # u
          /\ ShortNameOf(t) = ShortNameOf(u)
          /\ ~Retrievable(t)
          /\ Retrievable(u)

====
